---------------------------- MODULE Spec2Model ----------------------------
(***************************************************************************)
(* Model of the Odyssey wallet RPC handler                                 *)
(* (crates/wallet/src/lib.rs, OdysseyWallet::send_transaction).            *)
(*                                                                         *)
(* Every inbound request is served by its own task.  The tasks share the   *)
(* OdysseyWalletInner: the permit (a tokio Mutex<()>), the two metric      *)
(* counters, and the handles to the collaborators (state provider, eth     *)
(* api, wallet).  A task is modelled by its program counter pc[r] and its  *)
(* locals; one action is one stretch of the handler between two points at  *)
(* which the task can be suspended or touches shared state.                *)
(*                                                                         *)
(* Option<T> is a sequence: <<>> is None and <<v>> is Some(v).             *)
(***************************************************************************)
EXTENDS Integers, Sequences, FiniteSets, TLC

\* Number of concurrently served requests (tasks).
NumReqs == 2

Reqs == 1..NumReqs

--------------------------------------------------------------------------
(* Addresses and account state *)

\* Address::ZERO
ZERO == "0x00"
\* A delegation contract listed in the DelegationCapability.
ListedImpl == "0xA1"
\* A delegation contract that is not listed in the DelegationCapability.
UnlistedImpl == "0xB2"
\* An account without code.
EoaPlain == "0xE3"
\* An account whose code is the designator 0xef0100 || ZERO.
EoaToZero == "0xE4"
\* An account whose code is a designator of ListedImpl.
EoaToListed == "0xE5"
\* An account whose code is a designator of UnlistedImpl.
EoaToUnlisted == "0xE6"
\* The address of the wallet's default signer (the sequencer).
default_signer_address == "0x5E"

\* DelegationCapability.addresses
DelegationCapability == <<ListedImpl>>

\* Destinations that requests name.
Destinations == {ListedImpl, EoaPlain, EoaToZero, EoaToListed, EoaToUnlisted}

NoCode == [kind |-> "None", address |-> ZERO]
LegacyCode == [kind |-> "Legacy", address |-> ZERO]
Eip7702Code(a) == [kind |-> "Eip7702", address |-> a]

\* What StateProvider::account_code(addr) finds at the latest state:
\* Option<Bytecode>, with kind "None" for no code.
AccountCode(addr) ==
    CASE addr = ListedImpl -> LegacyCode
      [] addr = UnlistedImpl -> LegacyCode
      [] addr = EoaToZero -> Eip7702Code(ZERO)
      [] addr = EoaToListed -> Eip7702Code(ListedImpl)
      [] addr = EoaToUnlisted -> Eip7702Code(UnlistedImpl)
      [] OTHER -> NoCode

--------------------------------------------------------------------------
(* Transaction requests *)

NoTo == [kind |-> "None", addr |-> ZERO]
CreateTo == [kind |-> "Create", addr |-> ZERO]
CallTo(a) == [kind |-> "Call", addr |-> a]

TxTos == {NoTo, CreateTo} \cup {CallTo(a) : a \in Destinations}

\* A TransactionRequest as a caller sends it: the fields the handler reads
\* or writes.  The handler fills chain_id, gas and the fee fields.
Request(value, from, nonce, to, auth, gas_price) ==
    [value |-> value, from |-> from, nonce |-> nonce, to |-> to,
     authorization_list |-> auth, gas_price |-> gas_price,
     chain_id |-> <<>>, gas |-> <<>>,
     max_fee_per_gas |-> <<>>, max_priority_fee_per_gas |-> <<>>]

\* TransactionRequest::default()
DefaultRequest == Request(<<>>, <<>>, <<>>, NoTo, FALSE, <<>>)

\* The largest value a request transfers.
MaxValue == 2

\* The requests callers send.  The first family is TransactionRequest::
\* default() with every combination of the fields the validator reads; the
\* second passes the validator (value 0) and has every destination shape,
\* with and without an authorization list, and a legacy gas price.
Requests ==
    {Request(v, f, n, NoTo, FALSE, <<>>) :
        v \in {<<>>} \cup {<<x>> : x \in 0..MaxValue},
        f \in {<<>>, <<ZERO>>},
        n \in {<<>>, <<0>>, <<1>>}}
    \cup
    {Request(<<0>>, <<>>, <<>>, t, al, <<2>>) : t \in TxTos, al \in BOOLEAN}

\* The end-to-end scenarios: a value transfer, a call into a delegated
\* account, and a delegation.
Scenarios ==
    {Request(<<1>>, <<>>, <<>>, CallTo(EoaToListed), FALSE, <<>>),
     Request(<<0>>, <<>>, <<>>, CallTo(EoaToListed), FALSE, <<2>>),
     Request(<<>>, <<>>, <<>>, CallTo(EoaPlain), TRUE, <<>>)}

\* What the caller of task r may send.  The tasks run the same code, so the
\* first ranges over every request and the others, which are there for the
\* interleavings, over the scenarios.
Sent(r) == IF r = 1 THEN Requests \cup Scenarios ELSE Scenarios

--------------------------------------------------------------------------
(* Results *)

Ok == [tag |-> "Ok", estimate |-> 0]
Hash == [tag |-> "Hash", estimate |-> 0]
Pending == [tag |-> "Pending", estimate |-> 0]
\* An OdysseyWalletError without payload, or an error of a collaborator that
\* the handler passes through (NonceLookupError, EstimateError, SubmitError).
Err(tag) == [tag |-> tag, estimate |-> 0]
GasEstimateTooHigh(e) == [tag |-> "GasEstimateTooHigh", estimate |-> e]

\* request.value.is_some(): a value of zero is refused too.
validate_value_set(request) ==
    IF request.value # <<>> THEN Err("ValueNotZero")
    ELSE IF request.from # <<>> THEN Err("FromSet")
    ELSE IF request.nonce # <<>> THEN Err("NonceSet")
    ELSE Ok

\* The nonce is looked at before the sender.
validate_nonce_first(request) ==
    IF request.value # <<>> /\ request.value[1] > 0 THEN Err("ValueNotZero")
    ELSE IF request.nonce # <<>> THEN Err("NonceSet")
    ELSE IF request.from # <<>> THEN Err("FromSet")
    ELSE Ok

\* A nonce of zero is taken for no nonce.
validate_nonce_positive(request) ==
    IF request.value # <<>> /\ request.value[1] > 0 THEN Err("ValueNotZero")
    ELSE IF request.from # <<>> THEN Err("FromSet")
    ELSE IF request.nonce # <<>> /\ request.nonce[1] > 0 THEN Err("NonceSet")
    ELSE Ok

\* validate_tx_request
validate_tx_request(request) ==
    IF request.value # <<>> /\ request.value[1] > 0 THEN Err("ValueNotZero")
    ELSE IF request.from # <<>> THEN Err("FromSet")
    ELSE IF request.nonce # <<>> THEN Err("NonceSet")
    ELSE Ok

\* code.0 matched against Bytecode::Eip7702, unwrap_or_default for the rest:
\* the delegated address of an Option<Bytecode>, ZERO if there is none.
DelegatedAddress(code) ==
    IF code.kind = "Eip7702" THEN code.address ELSE ZERO

--------------------------------------------------------------------------
(* Collaborators *)

\* The gas limit above which a request is refused.
GasCap == 350000

\* let max_priority_fee_per_gas = 1_000_000_000; // 1 gwei
max_priority_fee_per_gas == 1000000000

\* OdysseyWalletInner.chain_id
chain_id == "chain"

Failed == [ok |-> FALSE, val |-> 0]
Returned(v) == [ok |-> TRUE, val |-> v]

\* What EthCall::estimate_gas_at returns: an error, or an amount of gas
\* (a u64 inside the estimator, so that estimate.to::<u64>() is exact).
Estimates == {Failed} \cup {Returned(e) : e \in {GasCap - 1, GasCap, GasCap + 1}}

\* What LoadFee::eip1559_fees returns: an error, or the fee whose first
\* component the handler calls base_fee.
BaseFees == {Failed, Returned(7)}

\* The methods the handler calls on what the tasks share: the permit and
\* the collaborators.
Collaborators ==
    {"latest", "account_code", "lock", "next_available_nonce",
     "estimate_gas_at", "eip1559_fees", "build", "send_raw_transaction"}

--------------------------------------------------------------------------
(* State *)

VARIABLES
    pc,             \* pc[r]: where task r is in send_transaction
    sent,           \* sent[r]: the request as the caller sent it
    request,        \* request[r]: the task's `request`, as filled so far
    outcome,        \* outcome[r]: what the call returned, Pending before
    permit,         \* OdysseyWalletInner.permit: <<>> or <<holder>>
    estimate,       \* estimate[r]: what estimate_gas_at returned to r
    base_fee,       \* base_fee[r]: what eip1559_fees returned to r
    envelope,       \* envelope[r]: the signed transaction, once built
    account_nonce,  \* what next_available_nonce returns for the signer
    pool,           \* the transactions send_raw_transaction accepted
    invalid_send_transaction_calls,     \* WalletMetrics counter
    valid_send_transaction_calls,       \* WalletMetrics counter
    state_read,     \* state_read[r]: how the task's account-state read went
    calls           \* calls[r][c]: how often task r called method c

vars ==
    <<pc, sent, request, outcome, permit, estimate, base_fee, envelope,
      account_nonce, pool,
      invalid_send_transaction_calls, valid_send_transaction_calls,
      state_read, calls>>

Init ==
    /\ pc = [r \in Reqs |-> "idle"]
    /\ sent = [r \in Reqs |-> DefaultRequest]
    /\ request = [r \in Reqs |-> DefaultRequest]
    /\ outcome = [r \in Reqs |-> Pending]
    /\ permit = <<>>
    /\ estimate = [r \in Reqs |-> <<>>]
    /\ base_fee = [r \in Reqs |-> <<>>]
    /\ envelope = [r \in Reqs |-> <<>>]
    /\ account_nonce = 0
    /\ pool = <<>>
    /\ invalid_send_transaction_calls = 0
    /\ valid_send_transaction_calls = 0
    /\ state_read = [r \in Reqs |-> "NotRead"]
    /\ calls = [r \in Reqs |-> [c \in Collaborators |-> 0]]

\* Task r has called each collaborator of cs once more.
Called(r, cs) ==
    calls' = [calls EXCEPT ![r] =
                [c \in Collaborators |-> IF c \in cs THEN @[c] + 1 ELSE @[c]]]

\* invalid_send_transaction_calls.increment(1)
IncrementInvalid ==
    /\ invalid_send_transaction_calls' = invalid_send_transaction_calls + 1
    /\ UNCHANGED valid_send_transaction_calls

\* valid_send_transaction_calls.increment(1)
IncrementValid ==
    /\ valid_send_transaction_calls' = valid_send_transaction_calls + 1
    /\ UNCHANGED invalid_send_transaction_calls

DropPermitLeak(r) == permit

\* The permit after task r has dropped its locals: `_permit`, if r holds it,
\* is dropped with them and unlocks the mutex.
DropPermit(r) == IF permit = <<r>> THEN <<>> ELSE permit

\* send_transaction returns `result` to the caller of task r: the locals go
\* out of scope.
Return(r, result) ==
    /\ pc' = [pc EXCEPT ![r] = "done"]
    /\ outcome' = [outcome EXCEPT ![r] = result]
    /\ permit' = DropPermit(r)

\* Task r goes on to `next` inside send_transaction.
Goto(r, next) ==
    /\ pc' = [pc EXCEPT ![r] = next]
    /\ UNCHANGED outcome

--------------------------------------------------------------------------
(* send_transaction, step by step *)

\* delegated_address == Address::ZERO: not eip-7702 bytecode
NotDelegatedNever(delegated_address) == FALSE

NotDelegated(delegated_address) == delegated_address = ZERO

\* The request is looked at only once the permit is free.
ReceiveWaiting(r, q) ==
    /\ pc[r] = "idle"
    /\ permit = <<>>
    /\ sent' = [sent EXCEPT ![r] = q]
    /\ request' = [request EXCEPT ![r] = q]

\* A caller sends request q and task r starts to serve it.
Receive(r, q) ==
    /\ pc[r] = "idle"
    /\ sent' = [sent EXCEPT ![r] = q]
    /\ request' = [request EXCEPT ![r] = q]

\* The request fails validate_tx_request.
Reject(r) ==
    /\ \E q \in Sent(r) :
        /\ Receive(r, q)
        /\ validate_tx_request(q) # Ok
        /\ IncrementInvalid
        /\ Return(r, validate_tx_request(q))
    /\ UNCHANGED <<estimate, base_fee, envelope, account_nonce, pool,
                   state_read, calls>>

\* (false, Some(TxKind::Call(addr))): the destination has to be an account
\* that delegates.  latest() and account_code(addr) return without
\* suspending the task; either can fail.
ValidateCall(r) ==
    /\ \E q \in Sent(r), latest \in BOOLEAN, code \in BOOLEAN :
        LET delegated_address ==
                IF code THEN DelegatedAddress(AccountCode(q.to.addr))
                        ELSE ZERO
        IN  /\ Receive(r, q)
            /\ validate_tx_request(q) = Ok
            /\ ~q.authorization_list
            /\ q.to.kind = "Call"
            /\ IF ~latest
                 THEN /\ Called(r, {"latest"})
                      /\ state_read' = [state_read EXCEPT ![r] = "LatestFailed"]
                      /\ IncrementInvalid
                      /\ Return(r, Err("InternalError"))
                 ELSE /\ Called(r, {"latest", "account_code"})
                      /\ state_read' = [state_read EXCEPT ![r] =
                                          IF code THEN "Read" ELSE "CodeFailed"]
                      /\ IF NotDelegated(delegated_address)
                            THEN /\ IncrementInvalid
                                 /\ Return(r, Err("IllegalDestination"))
                            ELSE /\ Goto(r, "permit")
                                 /\ UNCHANGED <<permit,
                                                invalid_send_transaction_calls,
                                                valid_send_transaction_calls>>
    /\ UNCHANGED <<estimate, base_fee, envelope, account_nonce, pool>>

ValidateDelegationCallOnly(r) ==
    /\ \E q \in Sent(r) :
        /\ Receive(r, q)
        /\ validate_tx_request(q) = Ok
        /\ q.authorization_list
        /\ IF q.to.kind = "Call"
             THEN /\ Goto(r, "permit")
                  /\ UNCHANGED <<permit, invalid_send_transaction_calls,
                                 valid_send_transaction_calls>>
             ELSE /\ IncrementInvalid
                  /\ Return(r, Err("IllegalDestination"))
    /\ UNCHANGED <<estimate, base_fee, envelope, account_nonce, pool,
                   state_read, calls>>

\* (true, _): an eip-7702 transaction is let through.
ValidateDelegation(r) ==
    /\ \E q \in Sent(r) :
        /\ Receive(r, q)
        /\ validate_tx_request(q) = Ok
        /\ q.authorization_list
    /\ Goto(r, "permit")
    /\ UNCHANGED <<permit, estimate, base_fee, envelope,
                   account_nonce, pool, invalid_send_transaction_calls,
                   valid_send_transaction_calls, state_read, calls>>

ValidateOtherLetThrough(r) ==
    /\ \E q \in Sent(r) :
        /\ Receive(r, q)
        /\ validate_tx_request(q) = Ok
        /\ ~q.authorization_list
        /\ q.to.kind # "Call"
    /\ Goto(r, "permit")
    /\ UNCHANGED <<permit, estimate, base_fee, envelope,
                   account_nonce, pool, invalid_send_transaction_calls,
                   valid_send_transaction_calls, state_read, calls>>

\* _: every other shape is refused.
ValidateOther(r) ==
    /\ \E q \in Sent(r) :
        /\ Receive(r, q)
        /\ validate_tx_request(q) = Ok
        /\ ~q.authorization_list
        /\ q.to.kind # "Call"
    /\ IncrementInvalid
    /\ Return(r, Err("IllegalDestination"))
    /\ UNCHANGED <<estimate, base_fee, envelope, account_nonce, pool,
                   state_read, calls>>

\* let _ = ..lock().await: the guard is dropped at once.
AcquirePermitDropped(r) ==
    /\ pc[r] = "permit"
    /\ permit = <<>>
    /\ permit' = <<>>
    /\ Called(r, {"lock"})
    /\ Goto(r, "nonce")
    /\ UNCHANGED <<sent, request, estimate, base_fee, envelope, account_nonce,
                   pool, invalid_send_transaction_calls,
                   valid_send_transaction_calls, state_read>>

\* try_lock() with its result ignored: the task does not wait.
AcquirePermitNoWait(r) ==
    /\ pc[r] = "permit"
    /\ permit' = IF permit = <<>> THEN <<r>> ELSE permit
    /\ Called(r, {"lock"})
    /\ Goto(r, "nonce")
    /\ UNCHANGED <<sent, request, estimate, base_fee, envelope, account_nonce,
                   pool, invalid_send_transaction_calls,
                   valid_send_transaction_calls, state_read>>

\* let _permit = self.inner.permit.lock().await: the task goes on once the
\* mutex is unlocked, and locks it.
AcquirePermit(r) ==
    /\ pc[r] = "permit"
    /\ permit = <<>>
    /\ permit' = <<r>>
    /\ Called(r, {"lock"})
    /\ Goto(r, "nonce")
    /\ UNCHANGED <<sent, request, estimate, base_fee, envelope, account_nonce,
                   pool, invalid_send_transaction_calls,
                   valid_send_transaction_calls, state_read>>

\* next_available_nonce(signer).await, then nonce, chain id and from are set.
SetNonce(r) ==
    /\ pc[r] = "nonce"
    /\ Called(r, {"next_available_nonce"})
    /\ \E found \in BOOLEAN :
        IF found
          THEN /\ request' = [request EXCEPT
                                ![r].nonce = <<account_nonce>>,
                                ![r].chain_id = <<chain_id>>,
                                ![r].from = <<default_signer_address>>]
               /\ Goto(r, "estimate")
               /\ UNCHANGED <<permit, invalid_send_transaction_calls,
                              valid_send_transaction_calls>>
          ELSE /\ IncrementInvalid
               /\ Return(r, Err("NonceLookupError"))
               /\ UNCHANGED request
    /\ UNCHANGED <<sent, estimate, base_fee, envelope, account_nonce, pool,
                   state_read>>

\* tokio::join!(estimate_gas_at(..), eip1559_fees(..)): both calls are made
\* and the task goes on when both have returned.
Estimate(r) ==
    /\ pc[r] = "estimate"
    /\ Called(r, {"estimate_gas_at", "eip1559_fees"})
    /\ \E e \in Estimates, f \in BaseFees :
        /\ estimate' = [estimate EXCEPT ![r] = <<e>>]
        /\ base_fee' = [base_fee EXCEPT ![r] = <<f>>]
    /\ Goto(r, "gas")
    /\ UNCHANGED <<sent, request, permit, envelope, account_nonce, pool,
                   invalid_send_transaction_calls,
                   valid_send_transaction_calls, state_read>>

\* The request of task r with its gas limit set to the estimate.
WithGas(r) == [request[r] EXCEPT !.gas = <<estimate[r][1].val>>]

\* The priority fee is left out of the fee cap.
WithFeesNoTip(r) ==
    [WithGas(r) EXCEPT
        !.max_fee_per_gas = <<base_fee[r][1].val>>,
        !.max_priority_fee_per_gas = <<max_priority_fee_per_gas>>,
        !.gas_price = <<>>]

\* The request of task r with its gas limit and its gas price set.
WithFees(r) ==
    [WithGas(r) EXCEPT
        !.max_fee_per_gas = <<base_fee[r][1].val + max_priority_fee_per_gas>>,
        !.max_priority_fee_per_gas = <<max_priority_fee_per_gas>>,
        !.gas_price = <<>>]

TooHighStrict(e) == e > GasCap

\* estimate >= U256::from(350_000)
TooHigh(e) == e >= GasCap

\* The fees are examined before the estimate.
SetGasFeeFirst(r) ==
    /\ pc[r] = "gas"
    /\ IF ~base_fee[r][1].ok
         THEN /\ IncrementInvalid
              /\ Return(r, Err("InvalidTransactionRequest"))
              /\ UNCHANGED request
       ELSE IF ~estimate[r][1].ok
         THEN /\ IncrementInvalid
              /\ Return(r, Err("EstimateError"))
              /\ UNCHANGED request
       ELSE IF TooHigh(estimate[r][1].val)
         THEN /\ IncrementInvalid
              /\ Return(r, GasEstimateTooHigh(estimate[r][1].val))
              /\ UNCHANGED request
       ELSE /\ request' = [request EXCEPT ![r] = WithFees(r)]
            /\ Goto(r, "sign")
            /\ UNCHANGED <<permit, invalid_send_transaction_calls,
                           valid_send_transaction_calls>>
    /\ UNCHANGED <<sent, estimate, base_fee, envelope, account_nonce, pool,
                   state_read, calls>>

\* The results of the join are examined: the estimate, the gas cap, then the
\* fees; the gas limit and the gas price are set.
SetGas(r) ==
    /\ pc[r] = "gas"
    /\ IF ~estimate[r][1].ok
         THEN /\ IncrementInvalid
              /\ Return(r, Err("EstimateError"))
              /\ UNCHANGED request
       ELSE IF TooHigh(estimate[r][1].val)
         THEN /\ IncrementInvalid
              /\ Return(r, GasEstimateTooHigh(estimate[r][1].val))
              /\ UNCHANGED request
       ELSE IF ~base_fee[r][1].ok
         THEN /\ request' = [request EXCEPT ![r] = WithGas(r)]
              /\ IncrementInvalid
              /\ Return(r, Err("InvalidTransactionRequest"))
       ELSE /\ request' = [request EXCEPT ![r] = WithFees(r)]
            /\ Goto(r, "sign")
            /\ UNCHANGED <<permit, invalid_send_transaction_calls,
                           valid_send_transaction_calls>>
    /\ UNCHANGED <<sent, estimate, base_fee, envelope, account_nonce, pool,
                   state_read, calls>>

\* The map_err of build() without the increment of the counter.
SignUncounted(r) ==
    /\ pc[r] = "sign"
    /\ Called(r, {"build"})
    /\ \E built \in BOOLEAN :
        IF built
          THEN /\ envelope' = [envelope EXCEPT ![r] = <<request[r]>>]
               /\ IncrementValid
               /\ Goto(r, "submit")
               /\ UNCHANGED permit
          ELSE /\ UNCHANGED <<invalid_send_transaction_calls,
                              valid_send_transaction_calls>>
               /\ Return(r, Err("InvalidTransactionRequest"))
               /\ UNCHANGED envelope
    /\ UNCHANGED <<sent, request, estimate, base_fee, account_nonce, pool,
                   state_read>>

\* The guard is dropped once the envelope is built.
SignReleasing(r) ==
    /\ pc[r] = "sign"
    /\ Called(r, {"build"})
    /\ \E built \in BOOLEAN :
        IF built
          THEN /\ envelope' = [envelope EXCEPT ![r] = <<request[r]>>]
               /\ IncrementValid
               /\ Goto(r, "submit")
               /\ permit' = <<>>
          ELSE /\ IncrementInvalid
               /\ Return(r, Err("InvalidTransactionRequest"))
               /\ UNCHANGED envelope
    /\ UNCHANGED <<sent, request, estimate, base_fee, account_nonce, pool,
                   state_read>>

\* TransactionBuilder::build(request, &wallet).await: the request becomes a
\* signed envelope, or building fails.
Sign(r) ==
    /\ pc[r] = "sign"
    /\ Called(r, {"build"})
    /\ \E built \in BOOLEAN :
        IF built
          THEN /\ envelope' = [envelope EXCEPT ![r] = <<request[r]>>]
               /\ IncrementValid
               /\ Goto(r, "submit")
               /\ UNCHANGED permit
          ELSE /\ IncrementInvalid
               /\ Return(r, Err("InvalidTransactionRequest"))
               /\ UNCHANGED envelope
    /\ UNCHANGED <<sent, request, estimate, base_fee, account_nonce, pool,
                   state_read>>

\* A refused transaction is sent a second time.
SubmitRetry(r) ==
    /\ pc[r] = "submit"
    /\ \E accepted \in BOOLEAN :
        IF accepted
          THEN /\ Called(r, {"send_raw_transaction"})
               /\ pool' = Append(pool, [task |-> r, tx |-> envelope[r][1]])
               /\ account_nonce' = envelope[r][1].nonce[1] + 1
               /\ Return(r, Hash)
          ELSE /\ calls' = [calls EXCEPT ![r]["send_raw_transaction"] = @ + 2]
               /\ Return(r, Err("SubmitError"))
               /\ UNCHANGED <<pool, account_nonce>>
    /\ UNCHANGED <<sent, request, estimate, base_fee, envelope,
                   invalid_send_transaction_calls,
                   valid_send_transaction_calls, state_read>>

\* send_raw_transaction(envelope).await: the pool takes the transaction,
\* which uses up its nonce, or refuses it; the handler returns the result.
Submit(r) ==
    /\ pc[r] = "submit"
    /\ Called(r, {"send_raw_transaction"})
    /\ \E accepted \in BOOLEAN :
        IF accepted
          THEN /\ pool' = Append(pool, [task |-> r, tx |-> envelope[r][1]])
               /\ account_nonce' = envelope[r][1].nonce[1] + 1
               /\ Return(r, Hash)
          ELSE /\ Return(r, Err("SubmitError"))
               /\ UNCHANGED <<pool, account_nonce>>
    /\ UNCHANGED <<sent, request, estimate, base_fee, envelope,
                   invalid_send_transaction_calls,
                   valid_send_transaction_calls, state_read>>

Next ==
    \E r \in Reqs :
        \/ Reject(r)
        \/ ValidateCall(r)
        \/ ValidateDelegation(r)
        \/ ValidateOther(r)
        \/ AcquirePermit(r)
        \/ SetNonce(r)
        \/ Estimate(r)
        \/ SetGas(r)
        \/ Sign(r)
        \/ Submit(r)

Spec == Init /\ [][Next]_vars

\* A task that waits for the unlocked permit gets it (tokio's Mutex hands
\* the lock to its waiters in turn), and inside the guarded region every
\* call of a collaborator returns and the task is scheduled again.
Fairness ==
    \A r \in Reqs :
        /\ WF_vars(AcquirePermit(r))
        /\ WF_vars(SetNonce(r))
        /\ WF_vars(Estimate(r))
        /\ WF_vars(SetGas(r))
        /\ WF_vars(Sign(r))
        /\ WF_vars(Submit(r))

\* The steps of the tasks whose callers send the scenarios or the default
\* request: what a task does from the permit on does not depend on the
\* request it serves.
ScenarioSent(r) == sent'[r] \in Scenarios \cup {DefaultRequest}

ScenarioNext ==
    \E r \in Reqs :
        \/ Reject(r) /\ ScenarioSent(r)
        \/ ValidateCall(r) /\ ScenarioSent(r)
        \/ ValidateDelegation(r) /\ ScenarioSent(r)
        \/ ValidateOther(r) /\ ScenarioSent(r)
        \/ AcquirePermit(r)
        \/ SetNonce(r)
        \/ Estimate(r)
        \/ SetGas(r)
        \/ Sign(r)
        \/ Submit(r)

FairSpec == Init /\ [][ScenarioNext]_vars /\ Fairness

--------------------------------------------------------------------------
(* Properties *)

\* Task r is inside the guarded region: it has acquired the permit and has
\* not returned.
InRegion(r) == pc[r] \in {"nonce", "estimate", "gas", "sign", "submit"}

\* Task r has returned.
Done(r) == pc[r] = "done"

\* Task r got past the validation of the destination: it waits for the
\* permit or has acquired it.
PastAuthorization(r) ==
    \/ pc[r] = "permit"
    \/ InRegion(r)
    \/ Done(r) /\ calls[r]["lock"] = 1

\* The nonce of the i-th transaction the pool accepted.
PoolNonce(i) == pool[i].tx.nonce[1]

\* C1: at most one request is inside the guarded region, between acquiring
\* the permit and releasing it; the one inside is the holder of the permit.
C1_MutualExclusion ==
    /\ \A r1, r2 \in Reqs : InRegion(r1) /\ InRegion(r2) => r1 = r2
    /\ \A r \in Reqs : InRegion(r) => permit = <<r>>

\* A request uses the nonce it has read while another waits for the permit.
C1_Witness ==
    \E r1, r2 \in Reqs :
        /\ pc[r1] \in {"estimate", "gas", "sign", "submit"}
        /\ pc[r2] = "permit"

\* C2: the transactions the pool accepted carry distinct nonces, and one
\* submitted later carries a larger nonce than one submitted earlier; each
\* carries the next nonce of the signer as it was when it was submitted.
C2_NoncesIncrease ==
    /\ \A i, j \in 1..Len(pool) : i < j => PoolNonce(i) < PoolNonce(j)
    /\ \A i, j \in 1..Len(pool) :
            pool[i].task # pool[j].task => PoolNonce(i) # PoolNonce(j)
    /\ \A r \in Reqs :
            pc[r] \in {"estimate", "gas", "sign", "submit"}
                => request[r].nonce = <<account_nonce>>

\* Two requests have both been submitted.
C2_Witness ==
    /\ Len(pool) >= 2
    /\ pool[1].task # pool[2].task

\* C3: a request that has returned, with a hash or with an error, does not
\* hold the permit; the permit is held only by a request inside the guarded
\* region, so it is free whenever no request is in progress.
C3_PermitReleased ==
    /\ \A r \in Reqs : Done(r) => permit # <<r>>
    /\ \A r \in Reqs : permit = <<r>> => InRegion(r)
    /\ (\A r \in Reqs : pc[r] \in {"idle", "done"}) => permit = <<>>

\* A request has failed inside the guarded region, and a request that
\* acquired the permit after it has returned too.
C3_Witness ==
    \E r1, r2 \in Reqs :
        /\ r1 # r2
        /\ Done(r1) /\ calls[r1]["lock"] = 1
        /\ outcome[r1].tag \in {"NonceLookupError", "EstimateError",
                                "GasEstimateTooHigh",
                                "InvalidTransactionRequest", "SubmitError"}
        /\ Done(r2) /\ calls[r2]["lock"] = 1
        /\ permit = <<>>

\* Task r serves a request that passed the validator.
Validated(r) == pc[r] # "idle" /\ validate_tx_request(sent[r]) = Ok

\* Task r serves a validated call: no authorization list, and the
\* destination is an address.
ValidatedCall(r) ==
    /\ Validated(r)
    /\ ~sent[r].authorization_list
    /\ sent[r].to.kind = "Call"

\* The code of the destination of task r's request.
DestinationCode(r) == AccountCode(sent[r].to.addr)

\* The addresses of the DelegationCapability.
Listed == {DelegationCapability[i] : i \in 1..Len(DelegationCapability)}

\* Task r has made no call at all: no state read, no lock, no collaborator.
NoCalls(r) == \A c \in Collaborators : calls[r][c] = 0

\* Nothing of task r was signed or submitted.
NothingSigned(r) ==
    /\ envelope[r] = <<>>
    /\ calls[r]["send_raw_transaction"] = 0
    /\ \A i \in 1..Len(pool) : pool[i].task # r

\* C4: a call is signed or submitted only if the code of its destination
\* delegates to an address of the DelegationCapability.
C4_OnlyListedSponsored ==
    \A r \in Reqs :
        ValidatedCall(r) /\ ~NothingSigned(r)
            => /\ DestinationCode(r).kind = "Eip7702"
               /\ DestinationCode(r).address \in Listed

C6_DelegationProceeds ==
    \A r \in Reqs :
        Validated(r) /\ sent[r].authorization_list
            => /\ PastAuthorization(r)
               /\ outcome[r].tag \notin {"IllegalDestination", "InternalError"}
               /\ calls[r]["latest"] = 0
               /\ calls[r]["account_code"] = 0
               /\ state_read[r] = "NotRead"

\* A delegation that creates a contract holds the permit.
C6_Witness ==
    \E r \in Reqs :
        /\ Validated(r) /\ sent[r].authorization_list
        /\ sent[r].to = CreateTo
        /\ InRegion(r)

\* C7: a validated request without an authorization list whose destination
\* is unset or a contract creation is refused with IllegalDestination: no
\* state read, no permit, nothing signed, nothing submitted.
C7_OtherShapesRefused ==
    \A r \in Reqs :
        (/\ Validated(r)
         /\ ~sent[r].authorization_list
         /\ sent[r].to.kind \in {"None", "Create"})
            => /\ Done(r)
               /\ outcome[r] = Err("IllegalDestination")
               /\ NoCalls(r)
               /\ state_read[r] = "NotRead"
               /\ permit # <<r>>
               /\ NothingSigned(r)

\* A contract creation without an authorization list was refused.
C7_Witness ==
    \E r \in Reqs :
        /\ Validated(r)
        /\ ~sent[r].authorization_list
        /\ sent[r].to = CreateTo
        /\ outcome[r] = Err("IllegalDestination")

\* C8: a request whose account-state read failed, in latest() or in
\* account_code(), returns InternalError.
C8_ReadFailureIsInternalError ==
    \A r \in Reqs :
        state_read[r] \in {"LatestFailed", "CodeFailed"}
            => Done(r) /\ outcome[r] = Err("InternalError")

\* C9: once the results of the join are examined, an estimate of 350,000 or
\* more has made the request return GasEstimateTooHigh with that estimate,
\* no fee field set, nothing signed and nothing submitted; with a smaller
\* estimate the request is not refused for its gas and its gas limit is the
\* estimate.
C9_GasCap ==
    \A r \in Reqs :
        estimate[r] # <<>> /\ estimate[r][1].ok /\ pc[r] # "gas"
            => IF estimate[r][1].val >= 350000
                 THEN /\ Done(r)
                      /\ outcome[r] = [tag |-> "GasEstimateTooHigh",
                                       estimate |-> estimate[r][1].val]
                      /\ request[r].max_fee_per_gas = <<>>
                      /\ request[r].max_priority_fee_per_gas = <<>>
                      /\ calls[r]["build"] = 0
                      /\ NothingSigned(r)
                 ELSE /\ outcome[r].tag # "GasEstimateTooHigh"
                      /\ request[r].gas = <<estimate[r][1].val>>

\* An estimate of exactly 350,000 was refused, and an estimate of 349,999
\* was signed.
C9_Witness ==
    \E r1, r2 \in Reqs :
        /\ estimate[r1] = <<Returned(350000)>>
        /\ outcome[r1].tag = "GasEstimateTooHigh"
        /\ estimate[r2] = <<Returned(349999)>>
        /\ envelope[r2] # <<>>

\* The failures of the stages before the submission.
TypedFailures ==
    {"ValueNotZero", "FromSet", "NonceSet", "IllegalDestination",
     "InternalError", "NonceLookupError", "EstimateError",
     "GasEstimateTooHigh", "InvalidTransactionRequest"}

\* C10: submit is called at most once for a request, and only for a request
\* that was validated, authorized, given a nonce, estimated below the cap,
\* given its fees and signed; a request that returned a failure of one of
\* these stages has submitted nothing.
C10_NeverPartial ==
    \A r \in Reqs :
        /\ calls[r]["send_raw_transaction"] <= 1
        /\ calls[r]["send_raw_transaction"] > 0 \/ pc[r] = "submit"
            => /\ Validated(r)
               /\ calls[r]["lock"] = 1
               /\ calls[r]["next_available_nonce"] = 1
               /\ estimate[r][1].ok /\ estimate[r][1].val < 350000
               /\ base_fee[r][1].ok
               /\ calls[r]["build"] = 1
               /\ envelope[r] # <<>>
               /\ envelope[r][1].nonce # <<>>
               /\ envelope[r][1].gas # <<>>
               /\ envelope[r][1].max_fee_per_gas # <<>>
        /\ outcome[r].tag \in TypedFailures => NothingSigned(r)
        /\ \A i, j \in 1..Len(pool) : pool[i].task = pool[j].task => i = j

\* One request was submitted and returned a hash, another failed to be
\* signed.
C10_Witness ==
    \E r1, r2 \in Reqs :
        /\ outcome[r1] = Hash
        /\ calls[r1]["send_raw_transaction"] = 1
        /\ outcome[r2] = Err("InvalidTransactionRequest")
        /\ calls[r2]["build"] = 1

\* The tasks whose request was signed.
SignedTasks == {r \in Reqs : envelope[r] # <<>>}

\* The tasks that returned without their request having been signed.
RefusedTasks == {r \in Reqs : Done(r) /\ envelope[r] = <<>>}

\* C11: the valid-call counter counts the requests that were signed, whether
\* or not their submission succeeded, and the invalid-call counter counts the
\* requests that returned a failure of an earlier stage; a request is
\* counted once, so that once every request has returned the two counters
\* add up to the number of requests that returned.
C11_CountedOnce ==
    /\ valid_send_transaction_calls = Cardinality(SignedTasks)
    /\ invalid_send_transaction_calls = Cardinality(RefusedTasks)
    /\ \A r \in Reqs :
            Done(r) => (r \in SignedTasks
                            <=> outcome[r].tag \in {"Hash", "SubmitError"})
    /\ (\A r \in Reqs : pc[r] \in {"idle", "done"})
            => valid_send_transaction_calls + invalid_send_transaction_calls
                    = Cardinality({r \in Reqs : Done(r)})

\* A signed request whose submission failed was counted as valid, and a
\* request that was refused for its gas as invalid.
C11_Witness ==
    \E r1, r2 \in Reqs :
        /\ outcome[r1] = Err("SubmitError")
        /\ outcome[r2].tag = "GasEstimateTooHigh"
        /\ valid_send_transaction_calls = 1
        /\ invalid_send_transaction_calls = 1

\* Task r has been given a request.
Served(r) == pc[r] # "idle"

\* The request sent to task r transfers a value.
PositiveValue(r) == sent[r].value # <<>> /\ sent[r].value[1] > 0

\* The failures of validate_tx_request.
ValidatorErrors == {"ValueNotZero", "FromSet", "NonceSet"}

\* Task r returned the failure `tag` of the validator.
RejectedWith(r, tag) ==
    /\ validate_tx_request(sent[r]) = Err(tag)
    /\ Done(r)
    /\ outcome[r] = Err(tag)

\* The request of task r passed the validator.
Accepted(r) ==
    /\ validate_tx_request(sent[r]) = Ok
    /\ outcome[r].tag \notin ValidatorErrors

\* C12: with sender and nonce unset, a request whose value is greater than
\* zero fails with ValueNotZero, and one whose value is zero or unset passes
\* the validator.
C12_ValueChecked ==
    \A r \in Reqs :
        Served(r) /\ sent[r].from = <<>> /\ sent[r].nonce = <<>>
            => IF PositiveValue(r) THEN RejectedWith(r, "ValueNotZero")
                                   ELSE Accepted(r)

\* A value of 2 was refused, and a value of 0 and no value were accepted.
C12_Witness ==
    \E r1, r2 \in Reqs :
        /\ sent[r1].from = <<>> /\ sent[r1].nonce = <<>>
        /\ sent[r1].value = <<2>>
        /\ outcome[r1] = Err("ValueNotZero")
        /\ sent[r2].from = <<>> /\ sent[r2].nonce = <<>>
        /\ sent[r2].value \in {<<>>, <<0>>}
        /\ Served(r2) /\ Accepted(r2)

\* C13 as stated: every request with the sender set fails with FromSet,
\* whatever its value and nonce are.
C13_FromSetAlways ==
    \A r \in Reqs :
        Served(r) /\ sent[r].from # <<>> => RejectedWith(r, "FromSet")

\* C13: a request with the sender set fails with FromSet whatever its nonce
\* is, unless its value is greater than zero, when it fails with
\* ValueNotZero; with no positive value and sender and nonce unset the
\* request passes the validator.
C13_FromSetUnlessValue ==
    \A r \in Reqs :
        /\ Served(r) /\ sent[r].from # <<>>
            => IF PositiveValue(r) THEN RejectedWith(r, "ValueNotZero")
                                   ELSE RejectedWith(r, "FromSet")
        /\ Served(r) /\ ~PositiveValue(r)
                /\ sent[r].from = <<>> /\ sent[r].nonce = <<>>
            => Accepted(r)

\* A request with sender and nonce set and a value of zero failed with
\* FromSet.
C13_Witness ==
    \E r \in Reqs :
        /\ sent[r].from # <<>> /\ sent[r].nonce # <<>>
        /\ sent[r].value = <<0>>
        /\ outcome[r] = Err("FromSet")

\* C14 as stated: every request with the nonce set fails with NonceSet,
\* whatever its value and sender are.
C14_NonceSetAlways ==
    \A r \in Reqs :
        Served(r) /\ sent[r].nonce # <<>> => RejectedWith(r, "NonceSet")

\* C14: a request with the nonce set fails: with ValueNotZero if its value
\* is greater than zero, else with FromSet if its sender is set, else with
\* NonceSet.
C14_NonceSetLast ==
    \A r \in Reqs :
        Served(r) /\ sent[r].nonce # <<>>
            => IF PositiveValue(r) THEN RejectedWith(r, "ValueNotZero")
               ELSE IF sent[r].from # <<>> THEN RejectedWith(r, "FromSet")
               ELSE RejectedWith(r, "NonceSet")

\* A request with a nonce of zero, no sender and a value of zero failed with
\* NonceSet.
C14_Witness ==
    \E r \in Reqs :
        /\ sent[r].nonce = <<0>>
        /\ sent[r].from = <<>>
        /\ sent[r].value = <<0>>
        /\ outcome[r] = Err("NonceSet")

\* Task r returns a failure of the validator in this step.
RejectStep(r) == pc[r] = "idle" /\ outcome'[r].tag \in ValidatorErrors

\* Task r validates its request and its destination in this step.
EntryStep(r) == pc[r] = "idle" /\ pc'[r] # "idle"

\* C15: a request the validator refuses has made no call (no state read, no
\* lock, no nonce query, no estimate, no fee lookup, nothing signed or
\* submitted), and the step that refuses it changes nothing the tasks share
\* but the invalid-call counter; the validation of a request and of its
\* destination neither needs nor takes the permit: a task that has not
\* started can always take that step, whoever holds the permit.
C15_RejectionFrame ==
    /\ [](\A r \in Reqs :
            /\ outcome[r].tag \in ValidatorErrors
                => /\ NoCalls(r)
                   /\ state_read[r] = "NotRead"
                   /\ NothingSigned(r)
            /\ pc[r] = "idle"
                => /\ ENABLED Reject(r)
                   /\ ENABLED ValidateCall(r)
                   /\ ENABLED ValidateDelegation(r))
    /\ [][\A r \in Reqs :
            /\ RejectStep(r)
                => /\ invalid_send_transaction_calls'
                        = invalid_send_transaction_calls + 1
                   /\ UNCHANGED <<permit, account_nonce, pool, calls,
                                  state_read, envelope, estimate, base_fee,
                                  valid_send_transaction_calls>>
                   /\ \A o \in Reqs \ {r} :
                        /\ pc'[o] = pc[o]
                        /\ request'[o] = request[o]
                        /\ outcome'[o] = outcome[o]
            /\ EntryStep(r) => permit' = permit /\ permit # <<r>>]_vars

\* A request was refused by the validator while another held the permit,
\* and the next nonce is the one that request was given.
C15_Witness ==
    \E r1, r2 \in Reqs :
        /\ outcome[r1].tag \in ValidatorErrors
        /\ pc[r2] \in {"estimate", "gas", "sign", "submit"}
        /\ permit = <<r2>>
        /\ request[r2].nonce = <<account_nonce>>

\* The join of task r returned an estimate below the cap and no fees, and
\* the task has examined the two results.
FeeLookupFailed(r) ==
    /\ estimate[r] # <<>> /\ base_fee[r] # <<>>
    /\ estimate[r][1].ok /\ estimate[r][1].val < 350000
    /\ ~base_fee[r][1].ok
    /\ pc[r] # "gas"

\* C16: a request whose fee lookup failed, its estimate being below the
\* cap, returns InternalError.
C16_FeeFailureIsInternalError ==
    \A r \in Reqs :
        FeeLookupFailed(r) => Done(r) /\ outcome[r] = Err("InternalError")

\* C17: under FairSpec a request that waits for the permit acquires it, and
\* a request that has acquired it returns, with a hash or with an error,
\* whatever the other requests do inside the guarded region.
C17_EveryRequestReturns ==
    \A r \in Reqs :
        /\ pc[r] = "permit" ~> InRegion(r)
        /\ pc[r] = "permit" ~>
                (Done(r) /\ calls[r]["lock"] = 1 /\ outcome[r] # Pending)

\* A request that failed inside the guarded region has returned, and a
\* request that waited for the permit meanwhile has returned with a hash.
C17_Witness ==
    \E r1, r2 \in Reqs :
        /\ Done(r1) /\ calls[r1]["lock"] = 1
        /\ outcome[r1].tag \in {"NonceLookupError", "EstimateError",
                                "GasEstimateTooHigh",
                                "InvalidTransactionRequest"}
        /\ outcome[r2] = Hash
        /\ pool[1].task = r2

\* The request of task r is with the signer or has been signed: `tx` is the
\* transaction the signer is handed.
AtSigner(r, tx) ==
    \/ pc[r] = "sign" /\ tx = request[r]
    \/ envelope[r] # <<>> /\ tx = envelope[r][1]

\* C18: the transaction handed to the signer has the priority fee of 1 gwei,
\* a fee cap of the fetched base fee plus that priority fee (so at least the
\* priority fee), no legacy gas price, the configured chain id, the relayer
\* as sender, the estimate as gas limit, and as nonce the relayer's next
\* nonce, read while the task held the permit and still the next nonce as
\* long as the task is signing or submitting.
C18_SignedFields ==
    \A r \in Reqs :
        /\ \A tx \in {request[r]} \cup {envelope[r][i] : i \in 1..Len(envelope[r])} :
            AtSigner(r, tx)
                => /\ tx.max_priority_fee_per_gas = <<max_priority_fee_per_gas>>
                   /\ base_fee[r] # <<>> /\ base_fee[r][1].ok
                   /\ tx.max_fee_per_gas
                        = <<base_fee[r][1].val + max_priority_fee_per_gas>>
                   /\ tx.max_fee_per_gas[1] >= tx.max_priority_fee_per_gas[1]
                   /\ tx.gas_price = <<>>
                   /\ tx.chain_id = <<chain_id>>
                   /\ tx.from = <<default_signer_address>>
                   /\ estimate[r] # <<>> /\ estimate[r][1].ok
                   /\ tx.gas = <<estimate[r][1].val>>
                   /\ tx.nonce # <<>>
                   /\ calls[r]["next_available_nonce"] = 1
                   /\ calls[r]["lock"] = 1
                   /\ tx.to = sent[r].to
                   /\ tx.value = sent[r].value
        /\ pc[r] \in {"sign", "submit"}
            => /\ permit = <<r>>
               /\ request[r].nonce = <<account_nonce>>
        /\ pc[r] = "submit" => envelope[r] = <<request[r]>>

\* A request that came with a legacy gas price was signed without it, with
\* the fee cap of base fee plus priority fee, after another request had
\* used up the first nonce.
C18_Witness ==
    \E r \in Reqs :
        /\ envelope[r] # <<>>
        /\ sent[r].gas_price # <<>>
        /\ envelope[r][1].gas_price = <<>>
        /\ envelope[r][1].max_fee_per_gas[1] > max_priority_fee_per_gas
        /\ envelope[r][1].gas = <<GasCap - 1>>
        /\ envelope[r][1].nonce = <<1>>

\* Task r has read the relayer's next nonce and its call has not returned.
HoldsNonce(r) == pc[r] \in {"estimate", "gas", "sign", "submit"}

\* The calls that read the next nonce, sign and submit.
NonceCalls == {"next_available_nonce", "build", "send_raw_transaction"}

\* C19: from a request's read of the next nonce to the return of its call,
\* the return of the submit call included, the request holds the permit and
\* no other request reads the next nonce, signs or submits; the permit is
\* released in the very step in which the call returns, so a request that
\* has signed and is submitting still holds it.
C19_HeldUntilSubmitReturns ==
    [][\A r \in Reqs :
        HoldsNonce(r)
            => /\ permit = <<r>>
               /\ \A o \in Reqs \ {r}, c \in NonceCalls :
                        calls'[o][c] = calls[o][c]
               /\ \A o \in Reqs \ {r} : ~HoldsNonce(o)'
               /\ IF Done(r)' THEN permit' = <<>> ELSE permit' = <<r>>
               /\ pc[r] = "submit" /\ pc'[r] # pc[r]
                    => /\ Done(r)'
                       /\ calls'[r]["send_raw_transaction"] = 1
                       /\ outcome'[r].tag \in {"Hash", "SubmitError"}]_vars

\* A request has signed and is submitting, with the permit, while another
\* that read its state earlier waits for the permit.
C19_Witness ==
    \E r1, r2 \in Reqs :
        /\ pc[r1] = "submit"
        /\ envelope[r1] # <<>>
        /\ permit = <<r1>>
        /\ pc[r2] = "permit"
        /\ calls[r2]["next_available_nonce"] = 0

\* The join of task r has returned.
Joined(r) == estimate[r] # <<>> /\ base_fee[r] # <<>>

\* Task r has examined the results of its join.
Examined(r) == Joined(r) /\ pc[r] # "gas"

\* C20: the gas estimation and the fee lookup are issued together and their
\* results arrive together, before either is looked at; they are then
\* reported in a fixed order: a failed estimation is returned as it is,
\* else an estimate of 350,000 or more gives GasEstimateTooHigh, whether or
\* not the fee lookup failed, else a failed fee lookup makes the request
\* fail, else the request goes on to be signed.
C20_JoinPrecedence ==
    \A r \in Reqs :
        /\ calls[r]["estimate_gas_at"] = calls[r]["eip1559_fees"]
        /\ (estimate[r] = <<>>) <=> (base_fee[r] = <<>>)
        /\ Joined(r) <=> calls[r]["estimate_gas_at"] = 1
        /\ pc[r] = "gas"
            => /\ Joined(r)
               /\ outcome[r] = Pending
               /\ request[r].gas = <<>>
               /\ request[r].max_fee_per_gas = <<>>
        /\ Examined(r)
            => IF ~estimate[r][1].ok
                 THEN outcome[r] = Err("EstimateError")
               ELSE IF estimate[r][1].val >= GasCap
                 THEN outcome[r] = GasEstimateTooHigh(estimate[r][1].val)
               ELSE IF ~base_fee[r][1].ok
                 THEN /\ outcome[r] = Err("InvalidTransactionRequest")
                      /\ calls[r]["build"] = 0
               ELSE /\ outcome[r].tag \notin {"EstimateError",
                                               "GasEstimateTooHigh"}
                    /\ request[r].gas = <<estimate[r][1].val>>
                    /\ calls[r]["build"] = 1 \/ pc[r] = "sign"

\* With the fee lookup failed, one request whose estimate was at the cap
\* was refused with GasEstimateTooHigh and one whose estimation failed too
\* returned the failure of the estimation.
C20_Witness ==
    \E r1, r2 \in Reqs :
        /\ Examined(r1)
        /\ estimate[r1] = <<Returned(GasCap)>>
        /\ base_fee[r1] = <<Failed>>
        /\ outcome[r1] = GasEstimateTooHigh(GasCap)
        /\ Examined(r2)
        /\ estimate[r2] = <<Failed>>
        /\ base_fee[r2] = <<Failed>>
        /\ outcome[r2] = Err("EstimateError")

============================================================================
